---- MODULE Spec2Model ----
(***************************************************************************)
(* Signaling relay of webrtc-share (server.py): the two process-wide maps  *)
(* active_connections / peer_registry and the per-connection coroutine     *)
(* websocket_endpoint.  The coroutine is cut at its suspension points      *)
(* (await receive_text, await send_text); everything between two awaits    *)
(* runs without interleaving, as on the asyncio event loop.                *)
(***************************************************************************)
EXTENDS Integers, Sequences, FiniteSets, TLC

\* ---------------------------------------------------------------- bounds
MaxConn == 3
MaxFrames == 2

Conns == 1..MaxConn

\* ---------------------------------------------------------------- values
None == "None"
PeerIds == {"alice", "bob"}
Payloads == {"sdp1", "sdp2"}

VARIABLES
    accepted,            \* number of websockets accepted so far (they are numbered in arrival order)
    peer_id,             \* peer_id[c]: the path parameter of connection c
    pc,                  \* where the coroutine of c stands: "idle", "receive", "send", "done"
    awaiting,            \* the websocket whose send_text the coroutine of c awaits (0: none)
    client_state,        \* "CONNECTED" / "DISCONNECTED": whether the socket of c is still up
    active_connections,  \* dict peer_id -> websocket
    peer_registry,       \* dict peer_id -> {"ws": websocket, "connected_to": None}
    wire,                \* wire[c]: the text frames written to websocket c, oldest first
    message,             \* message[c]: the frame the coroutine of c is handling while it awaits a send
    handled,             \* number of frames read so far (bounded by MaxFrames)
    exclusive            \* history: the connections whose peer_id no other running coroutine
                         \* has had since they were accepted

vars == <<accepted, peer_id, pc, awaiting, client_state, active_connections,
          peer_registry, wire, message, handled, exclusive>>

\* ------------------------------------------------------- inbound frames
\* A text frame is either not JSON at all, JSON that is not an object, or a
\* JSON object (a record; an absent key is an absent field).
Obj(o) == [json |-> "object", obj |-> o]
NotJson == [json |-> "invalid", obj |-> [n |-> None]]
JsonArray == [json |-> "array", obj |-> [n |-> None]]

PayloadKey(t) ==
    CASE t = "offer" -> "offer"
      [] t = "answer" -> "answer"
      [] t = "ice-candidate" -> "candidate"
      [] OTHER -> None

Relayed == {"offer", "answer", "ice-candidate"}
Directed == {"connect", "offer", "answer", "ice-candidate", "disconnect"}

\* the peer the frames of the model are addressed to
Target == "bob"

PlainFrames ==
    {NotJson, JsonArray,
     Obj([target |-> Target]),
     Obj([type |-> "ping", target |-> Target]),
     Obj([type |-> "register"]),
     Obj([type |-> "connect", target |-> Target]),
     Obj([type |-> "disconnect", target |-> Target]),
     Obj([type |-> "answer", target |-> Target, answer |-> "sdp1"]),
     Obj([type |-> "answer", target |-> Target, offer |-> "sdp1"]),
     Obj([type |-> "ice-candidate", target |-> Target, candidate |-> "sdp2"])}
      \cup {Obj([type |-> "offer", target |-> Target, offer |-> p]) : p \in Payloads}
      \cup {Obj([type |-> t]) : t \in {"connect"} \cup Relayed}

\* frames in which the client names a sender itself
SpoofFrames ==
    {Obj([type |-> "connect", target |-> Target, from |-> "bob", peer_id |-> "bob"]),
     Obj([type |-> "disconnect", target |-> Target, from |-> "bob"]),
     Obj([type |-> "offer", target |-> Target, offer |-> "sdp1", from |-> "bob"])}

Frames == PlainFrames \cup SpoofFrames

\* ------------------------------------------------------------ the dicts
\* dict.get(key): the value, or None when the key is absent
Get(msg, key) == IF key \in DOMAIN msg THEN msg[key] ELSE None

\* (variant of DictSet: d.setdefault(key, value), an existing entry is kept)
DictSetDefault(d, key, value) ==
    [k \in DOMAIN d \cup {key} |-> IF k \in DOMAIN d THEN d[k] ELSE value]

\* d[key] = value
DictSet(d, key, value) ==
    [k \in DOMAIN d \cup {key} |-> IF k = key THEN value ELSE d[k]]

\* if key in d: del d[key]
DictDel(d, key) == [k \in DOMAIN d \ {key} |-> d[k]]

EmptyDict == [k \in {} |-> None]

\* the local variable `message` of a coroutine that is not handling a frame
NoMessage == [unbound |-> None]

\* ------------------------------------------------------ outbound frames
Registered(pid) == [type |-> "registered", peer_id |-> pid]
ConnectionRequest(pid) == [type |-> "connection-request", from |-> pid]
\* (variant of OfferOut: the from field of the client is passed on when there is one)
OfferOutTrusting(pid, msg) ==
    [type |-> "offer", from |-> IF "from" \in DOMAIN msg THEN msg.from ELSE pid,
     offer |-> Get(msg, "offer")]
OfferOut(pid, msg) == [type |-> "offer", from |-> pid, offer |-> Get(msg, "offer")]
AnswerOut(pid, msg) == [type |-> "answer", from |-> pid, answer |-> Get(msg, "answer")]
CandidateOut(pid, msg) ==
    [type |-> "ice-candidate", from |-> pid, candidate |-> Get(msg, "candidate")]
PeerDisconnected(pid) == [type |-> "peer-disconnected", from |-> pid]
PeerUnavailable(target_peer) == [type |-> "peer-unavailable", target |-> target_peer]

\* ----------------------------------------------------------------- Init
Init ==
    /\ accepted = 0
    /\ peer_id = [c \in Conns |-> None]
    /\ pc = [c \in Conns |-> "idle"]
    /\ awaiting = [c \in Conns |-> 0]
    /\ client_state = [c \in Conns |-> "CONNECTING"]
    /\ active_connections = EmptyDict
    /\ peer_registry = EmptyDict
    /\ wire = [c \in Conns |-> <<>>]
    /\ message = [c \in Conns |-> NoMessage]
    /\ handled = 0
    /\ exclusive = {}

\* ------------------------------------------------ steps of the coroutine
\* (variant of SendText: the frame jumps the queue of the socket)
SendTextFirst(c, ws, text) ==
    /\ wire' = [wire EXCEPT ![ws] =
                   IF client_state[ws] = "CONNECTED" THEN <<text>> \o @ ELSE @]
    /\ pc' = [pc EXCEPT ![c] = "send"]
    /\ awaiting' = [awaiting EXCEPT ![c] = ws]
    /\ UNCHANGED <<client_state, active_connections, peer_registry>>

\* await ws.send_text(text), called by the coroutine of c: the frame goes on the
\* wire of ws when its socket is up; the coroutine is suspended in the send.
SendText(c, ws, text) ==
    /\ wire' = [wire EXCEPT ![ws] =
                   IF client_state[ws] = "CONNECTED" THEN Append(@, text) ELSE @]
    /\ pc' = [pc EXCEPT ![c] = "send"]
    /\ awaiting' = [awaiting EXCEPT ![c] = ws]
    /\ UNCHANGED <<client_state, active_connections, peer_registry>>

\* (variant of NoWrite: a final else branch answers the sender with an error)
ReplyError(c) == SendText(c, c, [type |-> "error"])

\* no branch of the if/elif chain writes: back to receive_text
NoWrite(c) ==
    UNCHANGED <<wire, pc, awaiting, client_state, active_connections, peer_registry>>

\* (variant of Cleanup: only peer_registry is cleaned, active_connections is forgotten)
CleanupRegistryOnly(c) ==
    /\ active_connections' = active_connections
    /\ peer_registry' = DictDel(peer_registry, peer_id[c])
    /\ pc' = [pc EXCEPT ![c] = "done"]
    /\ awaiting' = [awaiting EXCEPT ![c] = 0]
    /\ client_state' = [client_state EXCEPT ![c] = "DISCONNECTED"]
    /\ UNCHANGED wire

\* (variant of Cleanup: only active_connections is cleaned, peer_registry is forgotten)
CleanupConnectionsOnly(c) ==
    /\ active_connections' = DictDel(active_connections, peer_id[c])
    /\ peer_registry' = peer_registry
    /\ pc' = [pc EXCEPT ![c] = "done"]
    /\ awaiting' = [awaiting EXCEPT ![c] = 0]
    /\ client_state' = [client_state EXCEPT ![c] = "DISCONNECTED"]
    /\ UNCHANGED wire

\* (variant of Cleanup: the finally block tells every peer still registered
\* that this one is gone)
CleanupNotifying(c) ==
    /\ active_connections' = DictDel(active_connections, peer_id[c])
    /\ peer_registry' = DictDel(peer_registry, peer_id[c])
    /\ pc' = [pc EXCEPT ![c] = "done"]
    /\ awaiting' = [awaiting EXCEPT ![c] = 0]
    /\ client_state' = [client_state EXCEPT ![c] = "DISCONNECTED"]
    /\ wire' = [d \in Conns |->
                  IF /\ d # c /\ client_state[d] = "CONNECTED"
                     /\ \E p \in DOMAIN active_connections : active_connections[p] = d
                  THEN Append(wire[d], PeerDisconnected(peer_id[c]))
                  ELSE wire[d]]

\* the finally block, and the endpoint returning (the server then closes the socket)
Cleanup(c) ==
    /\ active_connections' = DictDel(active_connections, peer_id[c])
    /\ peer_registry' = DictDel(peer_registry, peer_id[c])
    /\ pc' = [pc EXCEPT ![c] = "done"]
    /\ awaiting' = [awaiting EXCEPT ![c] = 0]
    /\ client_state' = [client_state EXCEPT ![c] = "DISCONNECTED"]
    /\ UNCHANGED wire

\* (variant of ForwardOrUnavailable: a forward pairs the target with the sender
\* in connected_to, and a target paired with someone else is reported unavailable)
ForwardIfUnpaired(c, target_peer, text) ==
    IF /\ target_peer \in DOMAIN active_connections
       /\ peer_registry[target_peer].connected_to \in {None, peer_id[c]}
    THEN LET ws == active_connections[target_peer]
         IN  /\ wire' = [wire EXCEPT ![ws] =
                            IF client_state[ws] = "CONNECTED" THEN Append(@, text) ELSE @]
             /\ pc' = [pc EXCEPT ![c] = "send"]
             /\ awaiting' = [awaiting EXCEPT ![c] = ws]
             /\ peer_registry' =
                    [peer_registry EXCEPT ![target_peer].connected_to = peer_id[c]]
             /\ UNCHANGED <<active_connections, client_state>>
    ELSE SendText(c, c, PeerUnavailable(target_peer))

\* (variant of ForwardOrUnavailable: a message without a target is dropped
\* before the lookup)
DiscardUntargeted(c, target_peer, text) ==
    IF target_peer = None
    THEN NoWrite(c)
    ELSE IF target_peer \in DOMAIN active_connections
         THEN SendText(c, active_connections[target_peer], text)
         ELSE SendText(c, c, PeerUnavailable(target_peer))

\* (variant of ForwardOrUnavailable: the forward is written with websocket.send_text,
\* the sender's own socket, instead of target_ws.send_text)
ForwardOnOwnSocket(c, target_peer, text) ==
    IF target_peer \in DOMAIN active_connections
    THEN SendText(c, c, text)
    ELSE SendText(c, c, PeerUnavailable(target_peer))

\* (variant of ForwardOrUnavailable: the else branch is missing, as in the
\* disconnect branch)
ForwardOrSilence(c, target_peer, text) ==
    IF target_peer \in DOMAIN active_connections
    THEN SendText(c, active_connections[target_peer], text)
    ELSE NoWrite(c)

\* if target_peer in active_connections: forward; else: reply peer-unavailable
ForwardOrUnavailable(c, target_peer, text) ==
    IF target_peer \in DOMAIN active_connections
    THEN SendText(c, active_connections[target_peer], text)
    ELSE SendText(c, c, PeerUnavailable(target_peer))

\* the disconnect branch has no else
ForwardOrNothing(c, target_peer, text) ==
    IF target_peer \in DOMAIN active_connections
    THEN SendText(c, active_connections[target_peer], text)
    ELSE NoWrite(c)

\* (variant of Register: the register message stores the reading socket under
\* its peer_id again before acknowledging)
RegisterAgain(c) ==
    /\ wire' = [wire EXCEPT ![c] = Append(@, Registered(peer_id[c]))]
    /\ pc' = [pc EXCEPT ![c] = "send"]
    /\ awaiting' = [awaiting EXCEPT ![c] = c]
    /\ active_connections' = DictSet(active_connections, peer_id[c], c)
    /\ peer_registry' = DictSet(peer_registry, peer_id[c], [ws |-> c, connected_to |-> None])
    /\ UNCHANGED client_state

\* the register branch: acknowledge on the socket the message came from
Register(c) == SendText(c, c, Registered(peer_id[c]))

\* the if/elif chain on message_type
Dispatch(c, msg) ==
    LET message_type == Get(msg, "type")
        target_peer == Get(msg, "target")
    IN  CASE message_type = "register" -> Register(c)
          [] message_type = "connect" ->
                ForwardOrUnavailable(c, target_peer, ConnectionRequest(peer_id[c]))
          [] message_type = "offer" ->
                ForwardOrUnavailable(c, target_peer, OfferOut(peer_id[c], msg))
          [] message_type = "answer" ->
                ForwardOrUnavailable(c, target_peer, AnswerOut(peer_id[c], msg))
          [] message_type = "ice-candidate" ->
                ForwardOrUnavailable(c, target_peer, CandidateOut(peer_id[c], msg))
          [] message_type = "disconnect" ->
                ForwardOrNothing(c, target_peer, PeerDisconnected(peer_id[c]))
          [] OTHER -> NoWrite(c)

\* json.loads(data) raises on text that is not JSON; msg.get raises on JSON
\* that is not an object; both land in `except Exception` and then `finally`
Raises(data) == data.json # "object"

\* one turn of the loop body on the frame `data`
HandleFrame(c, data) ==
    IF Raises(data) THEN Cleanup(c) ELSE Dispatch(c, data.obj)

\* ------------------------------------------------------------- actions
\* the coroutine of c is between accept and the end of its finally block
Running(c) == pc[c] \in {"receive", "send"}

\* (variant of Accept: the dicts are not touched at accept; the peer would only
\* be registered by its register message)
AcceptUnregistered(p) ==
    /\ accepted < MaxConn
    /\ LET c == accepted + 1
       IN  /\ accepted' = c
           /\ peer_id' = [peer_id EXCEPT ![c] = p]
           /\ pc' = [pc EXCEPT ![c] = "receive"]
           /\ client_state' = [client_state EXCEPT ![c] = "CONNECTED"]
           /\ exclusive' = IF \E d \in Conns : Running(d) /\ peer_id[d] = p
                           THEN {d \in exclusive : peer_id[d] # p}
                           ELSE exclusive \cup {c}
    /\ UNCHANGED <<active_connections, peer_registry, awaiting, wire, message, handled>>

\* a client opens /ws/{p}: accept, then both dicts are set (no await in between)
Accept(p) ==
    /\ accepted < MaxConn
    /\ LET c == accepted + 1
       IN  /\ accepted' = c
           /\ peer_id' = [peer_id EXCEPT ![c] = p]
           /\ pc' = [pc EXCEPT ![c] = "receive"]
           /\ client_state' = [client_state EXCEPT ![c] = "CONNECTED"]
           /\ active_connections' = DictSet(active_connections, p, c)
           /\ peer_registry' = DictSet(peer_registry, p, [ws |-> c, connected_to |-> None])
           /\ exclusive' = IF \E d \in Conns : Running(d) /\ peer_id[d] = p
                           THEN {d \in exclusive : peer_id[d] # p}
                           ELSE exclusive \cup {c}
    /\ UNCHANGED <<awaiting, wire, message, handled>>

\* (variant of Receive: the write is not awaited by the loop, which goes on
\* reading while it is in flight)
ReceiveWhileSending(c, data) ==
    /\ pc[c] \in {"receive", "send"}
    /\ client_state[c] = "CONNECTED"
    /\ handled < MaxFrames
    /\ HandleFrame(c, data)
    /\ message' = [message EXCEPT ![c] = IF pc'[c] = "send" THEN data.obj ELSE NoMessage]
    /\ handled' = handled + 1
    /\ UNCHANGED <<accepted, peer_id, exclusive>>

\* receive_text returns the text frame `data`; the loop body runs up to its next await
Receive(c, data) ==
    /\ pc[c] = "receive"
    /\ client_state[c] = "CONNECTED"
    /\ handled < MaxFrames
    /\ HandleFrame(c, data)
    /\ message' = [message EXCEPT ![c] = IF pc'[c] = "send" THEN data.obj ELSE NoMessage]
    /\ handled' = handled + 1
    /\ UNCHANGED <<accepted, peer_id, exclusive>>

\* the client of c goes away (close frame or network failure)
ClientClose(c) ==
    /\ pc[c] \in {"receive", "send"}
    /\ client_state[c] = "CONNECTED"
    /\ client_state' = [client_state EXCEPT ![c] = "DISCONNECTED"]
    /\ UNCHANGED <<accepted, peer_id, pc, awaiting, active_connections, peer_registry,
                   wire, message, handled, exclusive>>

\* (variant of ReceiveDisconnect: the exception is caught inside the loop, and
\* the coroutine goes back to awaiting receive_text)
ReceiveDisconnectCaughtInLoop(c) ==
    /\ pc[c] = "receive"
    /\ client_state[c] = "DISCONNECTED"
    /\ UNCHANGED vars

\* receive_text raises WebSocketDisconnect: except, finally
ReceiveDisconnect(c) ==
    /\ pc[c] = "receive"
    /\ client_state[c] = "DISCONNECTED"
    /\ Cleanup(c)
    /\ message' = [message EXCEPT ![c] = NoMessage]
    /\ UNCHANGED <<accepted, peer_id, handled, exclusive>>

\* the awaited send_text returns: next turn of the loop
SendReturn(c) ==
    /\ pc[c] = "send"
    /\ pc' = [pc EXCEPT ![c] = "receive"]
    /\ awaiting' = [awaiting EXCEPT ![c] = 0]
    /\ message' = [message EXCEPT ![c] = NoMessage]
    /\ UNCHANGED <<accepted, peer_id, client_state, active_connections, peer_registry,
                   wire, handled, exclusive>>

\* the awaited send_text raises because the socket written to is down: the
\* exception is raised in the coroutine that called send_text
SendRaise(c) ==
    /\ pc[c] = "send"
    /\ client_state[awaiting[c]] = "DISCONNECTED"
    /\ Cleanup(c)
    /\ message' = [message EXCEPT ![c] = NoMessage]
    /\ UNCHANGED <<accepted, peer_id, handled, exclusive>>

Next ==
    \/ \E p \in PeerIds : Accept(p)
    \/ \E c \in Conns, data \in Frames : Receive(c, data)
    \/ \E c \in Conns : ClientClose(c)
    \/ \E c \in Conns : ReceiveDisconnect(c)
    \/ \E c \in Conns : SendReturn(c)
    \/ \E c \in Conns : SendRaise(c)

Spec == Init /\ [][Next]_vars

\* the event loop resumes every coroutine whose awaited call has completed: a
\* receive_text pending on a socket that went down raises, and an awaited
\* send_text comes back, by returning or by raising, once the transport has
\* taken the bytes or has failed
FairSpec ==
    /\ Spec
    /\ \A c \in Conns :
          /\ WF_vars(ReceiveDisconnect(c))
          /\ WF_vars(SendReturn(c) \/ SendRaise(c))

\* ====================================================================
\* Properties
\* ====================================================================
Last(s) == s[Len(s)]
TypeOf(data) == Get(data.obj, "type")
TargetOf(data) == Get(data.obj, "target")
Up(ws) == client_state[ws] = "CONNECTED"
IsForward(text) == "from" \in DOMAIN text
OtherWiresUnchanged(ws) == \A d \in Conns : d # ws => wire'[d] = wire[d]

\* every step in which a coroutine reads a frame satisfies Post
EveryRead(Post(_, _)) ==
    handled' # handled =>
        \A c \in Conns, data \in Frames : Receive(c, data) => Post(c, data)

\* the frame a relayed message must arrive as: same type, from = the sender's
\* path peer_id, the payload field as the client sent it
Relay(pid, obj) ==
    CASE obj.type = "offer" -> [type |-> "offer", from |-> pid, offer |-> obj.offer]
      [] obj.type = "answer" -> [type |-> "answer", from |-> pid, answer |-> obj.answer]
      [] obj.type = "ice-candidate" ->
            [type |-> "ice-candidate", from |-> pid, candidate |-> obj.candidate]

C1_Post(c, data) ==
    (/\ ~Raises(data)
     /\ TypeOf(data) \in Relayed
     /\ PayloadKey(TypeOf(data)) \in DOMAIN data.obj
     /\ TargetOf(data) \in DOMAIN active_connections
     /\ Up(active_connections[TargetOf(data)]))
    => LET y == active_connections[TargetOf(data)]
       IN  /\ wire'[y] = Append(wire[y], Relay(peer_id[c], data.obj))
           /\ OtherWiresUnchanged(y)

\* C1 (routing correctness, P2): whenever a connection reads an offer, answer or
\* ice-candidate carrying its payload field and addressed to a peer whose
\* registered socket is up, exactly that envelope (same type, from = the
\* sender's peer_id, payload unchanged) is appended at the end of the wire of the
\* target's socket and no other wire changes; and no step ever removes or
\* reorders what is already on a wire.  Hence the target receives a sender's
\* envelopes in the order they were sent.
C1_RoutingInOrder ==
    [][/\ EveryRead(C1_Post)
       /\ \A d \in Conns :
            \/ wire'[d] = wire[d]
            \/ Len(wire'[d]) = Len(wire[d]) + 1 /\ SubSeq(wire'[d], 1, Len(wire[d])) = wire[d]
      ]_vars

\* two different relayed envelopes of one sender, one behind the other on the
\* wire of another peer
C1_Witness ==
    \E y \in Conns : \E i, j \in DOMAIN wire[y] :
        /\ i < j
        /\ wire[y][i].type \in Relayed /\ wire[y][j].type \in Relayed
        /\ wire[y][i].from = wire[y][j].from
        /\ wire[y][i] # wire[y][j]
        /\ peer_id[y] # wire[y][i].from

UnresolvedDirected(data) ==
    /\ ~Raises(data)
    /\ TypeOf(data) \in Directed
    /\ TargetOf(data) \notin DOMAIN active_connections

Unavailable(c, data) ==
    /\ wire'[c] = Append(wire[c], PeerUnavailable(TargetOf(data)))
    /\ OtherWiresUnchanged(c)
    /\ pc'[c] # "done"
    /\ client_state' = client_state

C2_OriginalPost(c, data) == UnresolvedDirected(data) => Unavailable(c, data)

\* C2 as stated (unavailable target, P3): every directed type, disconnect
\* included, sent to a target that is not registered yields one peer-unavailable
\* reply on the sender's wire, nothing elsewhere, and closes nothing.
C2_Original == [][EveryRead(C2_OriginalPost)]_vars

C2_Post(c, data) ==
    UnresolvedDirected(data) =>
        IF TypeOf(data) = "disconnect"
        THEN wire' = wire /\ pc' = pc /\ client_state' = client_state
        ELSE Unavailable(c, data)

\* C2 as amended: connect, offer, answer and ice-candidate sent to a target that
\* is not registered (or sent without a target) yield exactly one
\* peer-unavailable reply carrying that target on the sender's wire, nothing on
\* any other wire, and close nothing; disconnect to such a target writes
\* nothing at all, and closes nothing either.
C2_UnavailableTarget == [][EveryRead(C2_Post)]_vars

\* a coroutine suspended in the write of a peer-unavailable reply to its own socket
C2_Witness ==
    \E c \in Conns :
        /\ pc[c] = "send" /\ awaiting[c] = c
        /\ Get(message[c], "type") \in Directed
        /\ wire[c] # <<>>
        /\ Last(wire[c]) = PeerUnavailable(Get(message[c], "target"))

\* the connection accepted last under the peer_id of c is c itself
Newest(c) == \A d \in Conns : d > c => peer_id[d] # peer_id[c]

\* C3 (entry lifecycle under re-registration): an entry is removed only when the
\* socket it holds closes or when it is overwritten: as long as the coroutine
\* of the newest connection of a peer_id is running, the peer_id resolves to
\* that connection, whatever happens to the connections it superseded.
C3_EntryOutlivesSuperseded ==
    \A c \in Conns :
        Running(c) /\ Newest(c) =>
            /\ peer_id[c] \in DOMAIN active_connections
            /\ active_connections[peer_id[c]] = c
            /\ peer_id[c] \in DOMAIN peer_registry
            /\ peer_registry[peer_id[c]].ws = c

C4_Post(c, data) ==
    (Raises(data) \/ "type" \notin DOMAIN data.obj) =>
        /\ pc'[c] = "receive"
        /\ client_state' = client_state
        /\ active_connections' = active_connections
        /\ peer_registry' = peer_registry
        /\ wire' = wire

\* C4 (malformed input tolerance, P5): reading a frame that is not JSON, or a
\* JSON frame without a type, leaves the connection open and waiting for its
\* next frame, keeps its registry entry, and writes nothing.
C4_MalformedTolerated == [][EveryRead(C4_Post)]_vars

\* C5 (fire-and-forget forwarding): a coroutine suspended in a forwarding write
\* to another peer's socket, its own socket being up, is not ended by the step,
\* whether the write succeeds or fails; it stays connected and goes on.
C5_ForwardFailureNotSurfaced ==
    [][\A c \in Conns :
          (pc[c] = "send" /\ awaiting[c] # c /\ Up(c)) => pc'[c] # "done"
      ]_vars

\* the peer_id `target` has had a connection that is closed, and has no entry
ClosedAndAbsent(target) ==
    /\ target \notin DOMAIN active_connections
    /\ \E d \in Conns : pc[d] = "done" /\ peer_id[d] = target

\* the end of a coroutine removes the entries of its peer_id, and only an
\* accept under a peer_id brings an entry for it back
RemovedUntilAccepted ==
    /\ \A c \in Conns :
          (pc[c] # "done" /\ pc'[c] = "done") =>
              /\ peer_id[c] \notin DOMAIN active_connections'
              /\ peer_id[c] \notin DOMAIN peer_registry'
    /\ \A p \in PeerIds :
          (p \notin DOMAIN active_connections /\ p \in DOMAIN active_connections') =>
              accepted' = accepted + 1 /\ peer_id'[accepted'] = p

C6_OriginalPost(c, data) ==
    (~Raises(data) /\ TypeOf(data) \in Directed /\ ClosedAndAbsent(TargetOf(data))) =>
        /\ wire'[c] = Append(wire[c], PeerUnavailable(TargetOf(data)))
        /\ OtherWiresUnchanged(c)

\* C6 as stated (cleanup on disconnect, P4): once a connection of peer A is
\* closed, A has no entry until A is accepted again, and every directed frame
\* (disconnect included) addressed to A in between yields peer-unavailable on the
\* sender's wire and nothing on any other wire.
C6_Original == [][RemovedUntilAccepted /\ EveryRead(C6_OriginalPost)]_vars

C6_Post(c, data) ==
    (~Raises(data) /\ TypeOf(data) \in Directed /\ ClosedAndAbsent(TargetOf(data))) =>
        IF TypeOf(data) = "disconnect"
        THEN wire' = wire
        ELSE /\ wire'[c] = Append(wire[c], PeerUnavailable(TargetOf(data)))
             /\ OtherWiresUnchanged(c)

\* C6 as amended: once a connection of peer A is closed, A has no entry until A
\* is accepted again; in between, a connect, offer, answer or ice-candidate
\* addressed to A yields peer-unavailable on the sender's wire and nothing on
\* any other wire, and a disconnect addressed to A writes nothing anywhere.
C6_CleanupOnDisconnect == [][RemovedUntilAccepted /\ EveryRead(C6_Post)]_vars

\* a peer-unavailable reply about a peer whose connection is closed
C6_Witness ==
    \E c \in Conns :
        /\ pc[c] = "send" /\ awaiting[c] = c
        /\ Get(message[c], "type") \in Directed
        /\ ClosedAndAbsent(Get(message[c], "target"))
        /\ wire[c] # <<>>
        /\ Last(wire[c]) = PeerUnavailable(Get(message[c], "target"))

\* C7 (uniqueness at a point in time, P1): after every step, an entry of a
\* peer_id holds the connection accepted last under that peer_id, in both dicts;
\* and a connection that has been superseded by a later accept of its peer_id
\* gets no forwarded envelope on its wire any more.
C7_NewestChannelOnly ==
    [][/\ \A p \in DOMAIN active_connections' :
            /\ peer_id'[active_connections'[p]] = p
            /\ \A d \in Conns : peer_id'[d] = p => d <= active_connections'[p]
            /\ p \in DOMAIN peer_registry'
            /\ peer_registry'[p].ws = active_connections'[p]
       /\ \A c \in Conns :
            (peer_id[c] # None /\ ~Newest(c)) =>
                \/ wire'[c] = wire[c]
                \/ ~IsForward(Last(wire'[c]))
      ]_vars

\* a peer_id accepted twice, both connections still up, and a forwarded envelope
\* on the wire of the newer one
C7_Witness ==
    \E c, d \in Conns :
        /\ c < d /\ peer_id[c] = peer_id[d] /\ peer_id[c] # None
        /\ Running(c) /\ Up(c) /\ Running(d) /\ Up(d)
        /\ active_connections[peer_id[d]] = d
        /\ \E i \in DOMAIN wire[d] : IsForward(wire[d][i])

C8_Post(c, data) ==
    \A d \in Conns :
        wire'[d] # wire[d] =>
            LET text == Last(wire'[d])
            IN  IF IsForward(text)
                THEN /\ TargetOf(data) = peer_id[d]
                     /\ TargetOf(data) \in DOMAIN active_connections
                     /\ active_connections[TargetOf(data)] = d
                ELSE /\ d = c
                     /\ text \in {Registered(peer_id[c]), PeerUnavailable(TargetOf(data))}

\* C8 (no misrouting): a wire changes only in a step that reads a frame; what is
\* written is either a reply (registered, peer-unavailable) on the wire of the
\* connection the frame was read from, or a forward on the wire of the
\* connection registered, at that moment, under the frame's target.
C8_NoMisrouting ==
    [][(handled' = handled => wire' = wire) /\ EveryRead(C8_Post)]_vars

\* a forwarded envelope of another peer on a wire
C8_Witness ==
    \E d \in Conns : \E i \in DOMAIN wire[d] :
        IsForward(wire[d][i]) /\ wire[d][i].from # peer_id[d]

C9_Post(x, data) ==
    \A c \in exclusive :
        (/\ Running(c) /\ Up(c)
         /\ ~Raises(data)
         /\ TypeOf(data) \in {"connect", "offer", "answer", "ice-candidate"}
         /\ TargetOf(data) = peer_id[c])
        => /\ Len(wire'[c]) = Len(wire[c]) + 1
           /\ IsForward(Last(wire'[c]))
           /\ Last(wire'[c]).from = peer_id[x]
           /\ OtherWiresUnchanged(c)

\* C9 (implicit registration): a connection accepted under a peer_id that no
\* other running connection has (then or later) is resolvable under that peer_id
\* from the accept on and for as long as its coroutine runs; a connect, offer,
\* answer or ice-candidate addressed to it while its socket is up is forwarded
\* to its wire, and nothing is written elsewhere (no peer-unavailable).
C9_RoutableFromAccept ==
    [][/\ \A c \in exclusive' :
            pc'[c] \in {"receive", "send"} =>
                /\ peer_id'[c] \in DOMAIN active_connections'
                /\ active_connections'[peer_id'[c]] = c
                /\ peer_id'[c] \in DOMAIN peer_registry'
                /\ peer_registry'[peer_id'[c]].ws = c
       /\ EveryRead(C9_Post)
      ]_vars

\* a connection that never sent register (no registered reply on its wire) with
\* a forwarded envelope of another peer on its wire
C9_Witness ==
    \E c \in exclusive :
        /\ Running(c)
        /\ \A i \in DOMAIN wire[c] : wire[c][i].type # "registered"
        /\ \E i \in DOMAIN wire[c] : IsForward(wire[c][i]) /\ wire[c][i].from # peer_id[c]

\* the frame without the sender fields a client may have put in
StripFrom(data) ==
    [json |-> data.json,
     obj |-> [k \in DOMAIN data.obj \ {"from", "peer_id"} |-> data.obj[k]]]

C10_Post(c, data) ==
    ~Raises(data) =>
        /\ HandleFrame(c, StripFrom(data))
        /\ \A d \in Conns :
              (wire'[d] # wire[d] /\ IsForward(Last(wire'[d]))) =>
                  Last(wire'[d]).from = peer_id[c]

\* C10 (sender identity is set by the relay): the from field of every forwarded
\* envelope is the path peer_id of the connection the frame was read from, and
\* the step taken on a frame is the step taken on the same frame without its
\* client-supplied from / peer_id fields.
C10_FromSetByRelay == [][EveryRead(C10_Post)]_vars

\* a frame naming another sender has been forwarded under the reader's peer_id
C10_Witness ==
    \E c \in Conns :
        /\ pc[c] = "send" /\ awaiting[c] # c
        /\ "from" \in DOMAIN message[c]
        /\ message[c].from # peer_id[c]
        /\ wire[awaiting[c]] # <<>>
        /\ IsForward(Last(wire[awaiting[c]]))
        /\ Last(wire[awaiting[c]]).from = peer_id[c]
        /\ Last(wire[awaiting[c]]).type = "offer"

C11_Post(c, data) ==
    (~Raises(data) /\ TypeOf(data) = "register") =>
        /\ wire'[c] = Append(wire[c], Registered(peer_id[c]))
        /\ OtherWiresUnchanged(c)
        /\ active_connections' = active_connections
        /\ peer_registry' = peer_registry
        /\ pc'[c] = "send" /\ awaiting'[c] = c

\* C11 (register is a pure acknowledgement): reading a register message writes
\* exactly one {type: registered, peer_id: <path peer_id of the reader>} to the
\* reader's own socket, writes to no other socket, and leaves both dicts as
\* they were, however many register messages are read.
C11_RegisterIsPureAck == [][EveryRead(C11_Post)]_vars

\* a connection has been acknowledged twice and its peer_id is still registered
\* to the connection it was registered to at accept
C11_Witness ==
    \E c \in Conns :
        /\ wire[c] = <<Registered(peer_id[c]), Registered(peer_id[c])>>
        /\ pc[c] = "send" /\ awaiting[c] = c
        /\ Get(message[c], "type") = "register"
        /\ peer_id[c] \in DOMAIN active_connections
        /\ active_connections[peer_id[c]] = c

\* the effects of reading a disconnect message, up to the await of the write
C12_Post(c, data) ==
    (~Raises(data) /\ TypeOf(data) = "disconnect") =>
        /\ IF TargetOf(data) \in DOMAIN active_connections
              /\ Up(active_connections[TargetOf(data)])
           THEN LET ws == active_connections[TargetOf(data)]
                IN  /\ wire'[ws] = Append(wire[ws], PeerDisconnected(peer_id[c]))
                    /\ OtherWiresUnchanged(ws)
           ELSE wire' = wire
        /\ active_connections' = active_connections
        /\ peer_registry' = peer_registry
        /\ client_state' = client_state
        /\ pc'[c] # "done"

\* C12 (the disconnect message): a resolved target gets exactly one
\* {type: peer-disconnected, from: <sender>}; the sender gets no reply, both
\* dicts stay as they were, and the sender's coroutine is not ended by the
\* message, neither when it is read nor when the awaited write completes.
C12_DisconnectKeepsSenderOpen ==
    [][/\ EveryRead(C12_Post)
       /\ \A c \in Conns :
             (pc[c] = "send" /\ Up(c) /\ Get(message[c], "type") = "disconnect") =>
                 pc'[c] # "done"
      ]_vars

\* a coroutine that has ended stays ended: it reads nothing, writes nothing and
\* is stored in no dict again; and the step that ends it removes its peer_id
ClosedIsTerminal ==
    \A c \in Conns :
        /\ (pc[c] # "done" /\ pc'[c] = "done") =>
              /\ peer_id[c] \notin DOMAIN active_connections'
              /\ peer_id[c] \notin DOMAIN peer_registry'
        /\ pc[c] = "done" =>
              /\ pc'[c] = "done" /\ awaiting'[c] = 0
              /\ client_state'[c] = "DISCONNECTED"
              /\ \A p \in DOMAIN active_connections' : active_connections'[p] # c
              /\ \A p \in DOMAIN peer_registry' : peer_registry'[p].ws # c

Stalled(c) ==
    /\ pc[c] = "send" /\ awaiting[c] # c
    /\ Up(c) /\ handled < MaxFrames

\* the coroutine of c can read a frame now
CanRead(c) == ENABLED (\E data \in Frames : Receive(c, data))

\* the coroutines other than c that await receive_text on an up socket can read
OthersCanRead(c) ==
    \A d \in Conns \ {c} :
        (pc[d] = "receive" /\ Up(d) /\ handled < MaxFrames) => CanRead(d)

\* C14 as stated (a stalled forwarding write does not block the sender's own
\* reads): while the write from X to Y is pending, X's coroutine can read X's
\* next frame, and the coroutines of the other connections can read theirs.
C14_Original ==
    \A c \in Conns : Stalled(c) => (CanRead(c) /\ OthersCanRead(c))

\* C14 (a stalled forwarding write blocks only its own loop): while the write
\* from X to Y is pending, X's coroutine cannot read X's next frame, for the
\* loop awaits the write before it reads again; the coroutines of the other
\* connections can read theirs.
C14_OnlyOwnLoopBlocked ==
    \A c \in Conns : Stalled(c) => (~CanRead(c) /\ OthersCanRead(c))

\* X is stalled in a write to Y while another connection is ready to read
C14_Witness ==
    \E c, d \in Conns :
        /\ d # c
        /\ Stalled(c) /\ Up(awaiting[c])
        /\ pc[d] = "receive" /\ Up(d)
        /\ CanRead(d) /\ ~CanRead(c)

\* the entry of peer_id p, in both dicts, is what it was
EntryUnchanged(p) ==
    /\ (p \in DOMAIN active_connections') = (p \in DOMAIN active_connections)
    /\ (p \in DOMAIN peer_registry') = (p \in DOMAIN peer_registry)
    /\ p \in DOMAIN active_connections => active_connections'[p] = active_connections[p]
    /\ p \in DOMAIN peer_registry => peer_registry'[p] = peer_registry[p]

\* C15 (closing is silent): the step that ends the coroutine of a connection
\* writes to no socket, leaves the entry of every other peer_id and the
\* coroutine and socket of every other connection as they were, and removes
\* the entry of the closing connection's peer_id.
C15_ClosingIsSilent ==
    [][\A c \in Conns :
          (pc[c] # "done" /\ pc'[c] = "done") =>
              /\ wire' = wire
              /\ \A p \in PeerIds \ {peer_id[c]} : EntryUnchanged(p)
              /\ peer_id[c] \notin DOMAIN active_connections'
              /\ peer_id[c] \notin DOMAIN peer_registry'
              /\ \A d \in Conns \ {c} :
                    pc'[d] = pc[d] /\ client_state'[d] = client_state[d]
      ]_vars

\* a connection has closed while a peer under another peer_id is registered
\* and running, and that peer has been written nothing
C15_Witness ==
    \E c, d \in Conns :
        /\ pc[c] = "done" /\ Running(d) /\ Up(d)
        /\ peer_id[d] # peer_id[c]
        /\ peer_id[d] \in DOMAIN active_connections
        /\ active_connections[peer_id[d]] = d
        /\ peer_id[c] \notin DOMAIN active_connections
        /\ wire[d] = <<>>

C16_Post(c, data) ==
    (/\ ~Raises(data)
     /\ TypeOf(data) \in {"connect", "offer"}
     /\ TargetOf(data) \in DOMAIN active_connections
     /\ Up(active_connections[TargetOf(data)])) =>
        LET ws == active_connections[TargetOf(data)]
        IN  wire'[ws] = Append(wire[ws],
                               IF TypeOf(data) = "connect"
                               THEN ConnectionRequest(peer_id[c])
                               ELSE Relay(peer_id[c], data.obj))

\* C16 (pairing is never enforced): a connect or an offer to a registered peer
\* is forwarded to it whatever its socket has been sent before and whoever
\* sent it, and connected_to of every entry is None in every state.
C16_PairingNeverEnforced ==
    [][/\ \A p \in DOMAIN peer_registry' : peer_registry'[p].connected_to = None
       /\ EveryRead(C16_Post)
      ]_vars

\* the same peer has been forwarded session openings of two different senders,
\* and its connected_to is still None
C16_Witness ==
    \E y \in Conns :
        /\ Len(wire[y]) = 2
        /\ \A i \in 1..2 : wire[y][i].type \in {"connection-request", "offer"}
        /\ wire[y][1].from # wire[y][2].from
        /\ peer_id[y] \in DOMAIN peer_registry
        /\ peer_registry[peer_id[y]] = [ws |-> y, connected_to |-> None]

\* a message of a type that is routed and answered, sent without a target field
Untargeted(data) ==
    /\ ~Raises(data)
    /\ TypeOf(data) \in {"connect"} \cup Relayed
    /\ "target" \notin DOMAIN data.obj

C17_OriginalPost(c, data) ==
    Untargeted(data) =>
        /\ wire' = wire
        /\ active_connections' = active_connections
        /\ peer_registry' = peer_registry
        /\ pc'[c] = "receive"

\* C17 as stated (a directed message without target is discarded): nothing is
\* forwarded, nothing is written back to the sender, and the connection stays
\* open with its entry.
C17_Original == [][EveryRead(C17_OriginalPost)]_vars

C17_Post(c, data) ==
    Untargeted(data) =>
        /\ wire'[c] = Append(wire[c], PeerUnavailable(None))
        /\ OtherWiresUnchanged(c)
        /\ active_connections' = active_connections
        /\ peer_registry' = peer_registry
        /\ pc'[c] = "send" /\ awaiting'[c] = c

\* C17 (a directed message without target is answered as unavailable): the
\* lookup of the absent target fails like that of any unregistered peer_id, so
\* the sender is written {type: peer-unavailable, target: null}; nothing is
\* forwarded, both dicts are unchanged and the coroutine goes on.
C17_UntargetedIsUnavailable == [][EveryRead(C17_Post)]_vars

\* an offer without target has been answered with peer-unavailable, target null
C17_Witness ==
    \E c \in Conns :
        /\ pc[c] = "send" /\ awaiting[c] = c
        /\ Get(message[c], "type") = "offer"
        /\ "target" \notin DOMAIN message[c]
        /\ Last(wire[c]) = PeerUnavailable(None)
        /\ peer_id[c] \in DOMAIN active_connections

\* the message types the if/elif chain has a branch for
Known == {"register"} \cup Directed

C18_Post(c, data) ==
    (~Raises(data) /\ TypeOf(data) \notin Known) =>
        /\ wire' = wire
        /\ active_connections' = active_connections
        /\ peer_registry' = peer_registry
        /\ client_state' = client_state
        /\ pc'[c] = "receive" /\ awaiting'[c] = 0

\* C18 (unknown types are ignored): reading a message whose type is none of
\* register, connect, offer, answer, ice-candidate, disconnect writes to no
\* socket and changes neither dict; the coroutine is back at receive_text with
\* its socket open.
C18_UnknownTypeIgnored == [][EveryRead(C18_Post)]_vars

\* a frame has been read and has left no trace. The first connection is the
\* Target's and no coroutine has ended, so the Target has been registered on
\* an up socket all along: every frame of a known type would have written to
\* some socket, and a frame that raises would have ended a coroutine. The
\* frame read was one of an unknown type, and its reader can read again.
C18_Witness ==
    /\ handled = 1 /\ accepted = 2
    /\ peer_id[1] = Target
    /\ \A c \in 1..accepted :
          /\ pc[c] = "receive" /\ Up(c) /\ wire[c] = <<>>
          /\ ENABLED (\E data \in Frames : Receive(c, data))

\* C19 (a lookup returns only live sockets): in every state the socket stored
\* under a peer_id, in either dict, is that of a connection whose coroutine
\* has not run its finally block.
C19_EntriesAreLive ==
    /\ \A p \in DOMAIN active_connections : Running(active_connections[p])
    /\ \A p \in DOMAIN peer_registry : Running(peer_registry[p].ws)

\* after a re-registration and a close under the same peer_id, that peer_id is
\* registered again, to a running connection
C19_Witness ==
    \E c, d, e \in Conns :
        /\ c < d /\ d < e
        /\ peer_id[c] = peer_id[e] /\ peer_id[d] = peer_id[e]
        /\ pc[c] = "done" /\ Running(e)
        /\ peer_id[e] \in DOMAIN active_connections
        /\ active_connections[peer_id[e]] = e

\* C20 (the two dicts never diverge): in every state active_connections and
\* peer_registry have the same keys, and the ws of an entry of peer_registry
\* is the socket active_connections holds under the same key.
C20_DictsAgree ==
    /\ DOMAIN active_connections = DOMAIN peer_registry
    /\ \A p \in DOMAIN active_connections :
          peer_registry[p].ws = active_connections[p]

\* both dicts hold two peers after a connection has been cleaned up
C20_Witness ==
    /\ DOMAIN active_connections = PeerIds
    /\ DOMAIN peer_registry = PeerIds
    /\ \E c \in Conns : pc[c] = "done"

====
